---- MODULE Spec2Model ----
(***************************************************************************)
(* cvpack: construction of RMSDContent / SheetRMSDContent collective       *)
(* variables (src/cvpack/rmsd_content.py, src/cvpack/sheet_rmsd_content.py) *)
(*                                                                         *)
(* Python strings are sequences of one-character strings, Python lists are *)
(* sequences, a dict is a function.  The constructor is a state machine    *)
(* whose steps are the constructor's statements in program order; a raise  *)
(* moves it to "raised" and leaves everything built so far as it is.       *)
(***************************************************************************)
EXTENDS Integers, Sequences, FiniteSets, TLC

\* ------------------------------------------------------------------------
\* Bounds of the model
\* ------------------------------------------------------------------------

\* Longest residue sequence given to an unblocked SheetRMSDContent.
MaxResidues == 53

\* Largest residue_blocks list given to RMSDContent.__init__ directly.
MaxDirectBlocks == 67

\* Largest size of one block and longest blockSizes list.
MaxBlockSize == 5

MaxNumBlocks == 3

\* Longest residue sequence of the runs with a defective residue.
MaxDefectResidues == 9

\* Longest unblocked residue sequence of the runs that evaluate the result.
MaxValueResidues == 17

\* The largest number of blocks of a blocked sheet whose value is evaluated
MaxValueBlocks == 2

\* Sheets built with every step-function template have at most this many
\* residues: 15 residues are 36 antiparallel groups, two chunks
MaxTemplateResidues == 15

\* RMSDContent built directly with every template has at most this many groups
MaxTemplateBlocks == 34

\* A process constructs at most this many sheets one after the other
MaxCalls == 3

\* The sheets a process constructs one after the other have at most this
\* many residues
MaxProcessResidues == 10

\* ------------------------------------------------------------------------
\* Program constants
\* ------------------------------------------------------------------------

\* rmsd_content.py:37  "if not 1 <= num_residue_blocks <= 1024"
MaxBlocks == 1024

\* rmsd_content.py:51  the engine's per-expression term ceiling
ChunkSize == 32

\* sheet_rmsd_content.py:190  "min_distance = 6 if parallel else 5"
ParallelMinDistance == 6

AntiparallelMinDistance == 5

\* ------------------------------------------------------------------------
\* Python helpers
\* ------------------------------------------------------------------------

\* range(a, b) as a list
Range(a, b) == [t \in 1..(b - a) |-> a + t - 1]

Digit(d) == <<"0", "1", "2", "3", "4", "5", "6", "7", "8", "9">>[d + 1]

\* str(i) of a natural number: its decimal digits
RECURSIVE Str(_)
Str(i) == IF i < 10 THEN <<Digit(i)>> ELSE Str(i \div 10) \o <<Digit(i % 10)>>

\* The concatenation of lists[lo..hi], taken by halves to keep the
\* evaluation shallow
RECURSIVE ConcatFrom(_, _, _)
ConcatFrom(lists, lo, hi) ==
    IF hi < lo THEN <<>>
    ELSE IF lo = hi THEN lists[lo]
    ELSE LET mid == (lo + hi) \div 2
         IN ConcatFrom(lists, lo, mid) \o ConcatFrom(lists, mid + 1, hi)

\* sum(lists, []) : concatenation of a list of lists
Concat(lists) == ConcatFrom(lists, 1, Len(lists))

\* sep.join(parts)
Join(sep, parts) ==
    Concat([k \in 1..Len(parts) |-> IF k = 1 THEN parts[k] ELSE sep \o parts[k]])

\* sum(ints)
RECURSIVE Sum(_)
Sum(ints) == IF Len(ints) = 0 THEN 0 ELSE Head(ints) + Sum(Tail(ints))

\* np.cumsum
CumSum(ints) == [k \in 1..Len(ints) |-> Sum(SubSeq(ints, 1, k))]

\* s.replace(old, new) for a one-character old
Replace(s, old, new) ==
    Concat([k \in 1..Len(s) |-> IF s[k] = old THEN new ELSE <<s[k]>>])

\* ------------------------------------------------------------------------
\* Topology residues and RMSDContent._getAtomList
\* ------------------------------------------------------------------------

\* for atom in ("N", "CA", "CB", "C", "O")
RequiredAtoms == <<"N", "CA", "CB", "C", "O">>

NoError == [type |-> "none", what |-> "none", atom |-> "", residue |-> <<>>]

\* {atom.name: atom.index for atom in residue.atoms()}: the last atom of a
\* name wins
AtomDict(residue) ==
    LET atoms == residue.atoms
        names == {atoms[k].name : k \in 1..Len(atoms)}
        last(nm) == CHOOSE k \in 1..Len(atoms) :
                        /\ atoms[k].name = nm
                        /\ \A m \in (k + 1)..Len(atoms) : atoms[m].name # nm
    IN [nm \in names |-> atoms[last(nm)].index]

\* The dict after "if residue.name == 'GLY': residue_atoms['CB'] =
\* residue_atoms['HA2']"; only asked for when that statement does not raise.
GlyDict(residue) ==
    LET d == AtomDict(residue)
    IN IF residue.name = "GLY"
       THEN [nm \in DOMAIN d \cup {"CB"} |-> IF nm = "CB" THEN d["HA2"] ELSE d[nm]]
       ELSE d

\* RMSDContent._getAtomList: [ok, atom_list, error]
\* A glycine without HA2 raises the KeyError of the dict lookup of line 86,
\* which is outside the try block; every other missing atom raises the
\* ValueError of lines 92-94, which names the atom and the residue.
\* (the name keeps the source's, without its leading underscore)
getAtomList(residue) ==
    IF residue.name = "GLY" /\ "HA2" \notin DOMAIN AtomDict(residue)
    THEN [ok |-> FALSE, atom_list |-> <<>>,
          error |-> [type |-> "KeyError", what |-> "key", atom |-> "HA2",
                     residue |-> <<>>]]
    ELSE LET d == GlyDict(residue)
             missing == {k \in 1..Len(RequiredAtoms) : RequiredAtoms[k] \notin DOMAIN d}
         IN IF missing = {}
            THEN [ok |-> TRUE,
                  atom_list |-> [k \in 1..Len(RequiredAtoms) |-> d[RequiredAtoms[k]]],
                  error |-> NoError]
            ELSE LET first == CHOOSE k \in missing : \A m \in missing : k <= m
                 IN [ok |-> FALSE, atom_list |-> <<>>,
                     error |-> [type |-> "ValueError", what |-> "atom_not_found",
                                atom |-> RequiredAtoms[first],
                                residue |-> <<residue.name, residue.id>>]]

\* ------------------------------------------------------------------------
\* SheetRMSDContent.__init__: the residue groups
\* ------------------------------------------------------------------------

\* blockSizes = None
None == <<-1>>

\* Group with the second strand listed from its last residue to its first
Group_reversed(i, j) == <<i, i + 1, i + 2, j + 2, j + 1, j>>

\* [i, i + 1, i + 2, j, j + 1, j + 2]
Group(i, j) == <<i, i + 1, i + 2, j, j + 1, j + 2>>

\* MinDistance with the two distances exchanged
MinDistance_exchanged(parallel) ==
    IF parallel THEN AntiparallelMinDistance ELSE ParallelMinDistance

\* line 190: min_distance = 6 if parallel else 5
MinDistance(parallel) ==
    IF parallel THEN ParallelMinDistance ELSE AntiparallelMinDistance

\* [Group(i, j) for i in range(ilo, ihi) for j in range(jlo(i), jhi)]
GroupsFrom(ilo, ihi, jshift, jhi) ==
    Concat([r \in 1..(ihi - ilo) |->
              LET i == ilo + r - 1
              IN [t \in 1..(jhi - (i + jshift)) |-> Group(i, i + jshift + t - 1)]])

\* UnblockedGroups with j running to the last residue but one, as if a
\* group's second strand needed two residues only
UnblockedGroups_to_last(n, parallel) ==
    GroupsFrom(0, n - 2 - MinDistance(parallel), MinDistance(parallel), n - 1)

\* lines 190-195
UnblockedGroups(n, parallel) ==
    GroupsFrom(0, n - 2 - MinDistance(parallel), MinDistance(parallel), n - 2)

\* bounds = np.insert(np.cumsum(blockSizes), 0, 0), as a 1-based sequence:
\* Bounds(blockSizes)[k + 1] is the source's bounds[k]
Bounds(blockSizes) == <<0>> \o CumSum(blockSizes)

\* for i in range(lo, hi) for j in range(jlo, jhi)
PairsFrom(ilo, ihi, jlo, jhi) ==
    Concat([r \in 1..(ihi - ilo) |->
              [t \in 1..(jhi - jlo) |-> Group(ilo + r - 1, jlo + t - 1)]])

\* lines 197-203
RECURSIVE BlockedFrom(_, _)
BlockedFrom(bounds, k) ==
    IF k >= Len(bounds) - 2 THEN <<>>
    ELSE PairsFrom(bounds[k + 1], bounds[k + 2] - 2, bounds[k + 2], bounds[k + 3] - 2)
         \o BlockedFrom(bounds, k + 1)

BlockedGroups(blockSizes) == BlockedFrom(Bounds(blockSizes), 0)

\* ------------------------------------------------------------------------
\* RMSDContent.__init__: the expressions
\* ------------------------------------------------------------------------

Min(a, b) == IF a < b THEN a ELSE b

\* f"x{i}"
XName(i) == <<"x">> \o Str(i)

\* f"rmsd{i}"
RmsdName(i) == <<"r", "m", "s", "d">> \o Str(i)

\* f"chunk{i}"
ChunkName(i) == <<"c", "h", "u", "n", "k">> \o Str(i)

\* stepFunction.replace("x", f"x{i}")
Summand(stepFunction, i) == Replace(stepFunction, "x", XName(i))

\* f"x{i}=rmsd{i}/{thresholdRMSD}"
Definition(thresholdRMSD, i) ==
    XName(i) \o <<"=">> \o RmsdName(i) \o <<"/">> \o Str(thresholdRMSD)

\* expression without the cut at the number of groups: every chunk sums
\* 32 terms, the last one too
expression_uncut(start, num_residue_blocks, stepFunction, thresholdRMSD) ==
    LET idx == Range(start, start + ChunkSize)
        summands == [k \in 1..Len(idx) |-> Summand(stepFunction, idx[k])]
        definitions == [k \in 1..Len(idx) |-> Definition(thresholdRMSD, idx[k])]
    IN Join(<<";">>, <<Join(<<"+">>, summands)>> \o definitions)

\* def expression(start), lines 48-54
expression(start, num_residue_blocks, stepFunction, thresholdRMSD) ==
    LET idx == Range(start, Min(start + ChunkSize, num_residue_blocks))
        summands == [k \in 1..Len(idx) |-> Summand(stepFunction, idx[k])]
        definitions == [k \in 1..Len(idx) |-> Definition(thresholdRMSD, idx[k])]
    IN Join(<<";">>, <<Join(<<"+">>, summands)>> \o definitions)

\* lines 56-62
summation(num_residue_blocks, stepFunction, thresholdRMSD) ==
    IF num_residue_blocks <= ChunkSize
    THEN expression(0, num_residue_blocks, stepFunction, thresholdRMSD)
    ELSE Join(<<"+">>,
              [k \in 1..((num_residue_blocks + 31) \div 32) |-> ChunkName(k - 1)])

\* line 64: f"({summation})/{num_residue_blocks}" if normalize else summation
TopExpression(num_residue_blocks, stepFunction, thresholdRMSD, normalize) ==
    LET s == summation(num_residue_blocks, stepFunction, thresholdRMSD)
    IN IF normalize
       THEN <<"(">> \o s \o <<")", "/">> \o Str(num_residue_blocks)
       ELSE s

\* ------------------------------------------------------------------------
\* The objects handed to the engine
\* ------------------------------------------------------------------------

\* The files of lines 21-22
ParallelFile == "ideal_parallel_beta_sheet.csv"

AntiparallelFile == "ideal_antiparallel_beta_sheet.csv"

\* RMSDContent._loadPositions(filename), lines 74-80: a new list of the
\* positions read from the file; `object` tells the lists of two loads of
\* one file apart
\* (the name keeps the source's, without its leading underscore)
loadPositions(filename, object) == [file |-> filename, object |-> object]

\* A module-level name before the module body has run
Unbound == [file |-> "", object |-> 0]

\* RMSD(ideal_positions, block_atoms[index], numAtoms)
RMSD(referencePositions, group, numAtoms) ==
    [type |-> "RMSD", expression |-> <<>>, cvs |-> <<>>,
     referencePositions |-> referencePositions, group |-> group,
     numAtoms |-> numAtoms]

\* openmm.CustomCVForce(energy)
CustomCVForce(energy) ==
    [type |-> "CustomCVForce", expression |-> energy, cvs |-> <<>>,
     referencePositions |-> "", group |-> <<>>, numAtoms |-> 0]

\* The object before RMSDContent.__init__ has run
NewSelf ==
    [num_residue_blocks |-> -1, initialised |-> FALSE, expression |-> <<>>,
     cvs |-> <<>>, registered |-> FALSE, cvargs |-> <<>>]

\* LoopBody starting a new chunk every 64 groups only
LoopBody_wide(index, st, a) ==
    LET n == Len(a.block_atoms)
        fresh == n > 32 /\ index % 64 = 0
        cvs1 == IF fresh
                THEN Append(st.cvs,
                       [name |-> ChunkName(index \div 32),
                        cv |-> CustomCVForce(
                                 expression(index, n, a.stepFunction,
                                            a.thresholdRMSD))])
                ELSE st.cvs
        force1 == IF fresh THEN Len(cvs1) ELSE st.force
        leaf == [name |-> RmsdName(index),
                 cv |-> RMSD(a.ideal_positions, a.block_atoms[index + 1],
                             a.numAtoms)]
    IN [force |-> force1,
        cvs |-> IF force1 = 0
                THEN Append(cvs1, leaf)
                ELSE [cvs1 EXCEPT ![force1].cv.cvs = Append(@, leaf)]]

\* One pass of the body of the loop of lines 66-72.  st.force is the object
\* the local variable `force` refers to: 0 is self, k > 0 is the chunk held as
\* self's k-th collective variable; st.cvs are self's collective variables.
LoopBody(index, st, a) ==
    LET n == Len(a.block_atoms)
        fresh == n > 32 /\ index % 32 = 0
        cvs1 == IF fresh
                THEN Append(st.cvs,
                       [name |-> ChunkName(index \div 32),
                        cv |-> CustomCVForce(
                                 expression(index, n, a.stepFunction,
                                            a.thresholdRMSD))])
                ELSE st.cvs
        force1 == IF fresh THEN Len(cvs1) ELSE st.force
        leaf == [name |-> RmsdName(index),
                 cv |-> RMSD(a.ideal_positions, a.block_atoms[index + 1],
                             a.numAtoms)]
    IN [force |-> force1,
        cvs |-> IF force1 = 0
                THEN Append(cvs1, leaf)
                ELSE [cvs1 EXCEPT ![force1].cv.cvs = Append(@, leaf)]]

\* for index in range(lo, hi): the passes in order.  The range is halved and
\* the first half's result is looked at before the second half starts, only
\* to keep the evaluation shallow.
RECURSIVE AddLoop(_, _, _, _)
AddLoop(lo, hi, st, a) ==
    IF hi <= lo THEN st
    ELSE IF hi = lo + 1 THEN LoopBody(lo, st, a)
    ELSE LET mid == (lo + hi) \div 2
             first == AddLoop(lo, mid, st, a)
         IN IF first.force >= 0 THEN AddLoop(mid, hi, first, a) ELSE first

\* ------------------------------------------------------------------------
\* The engine: evaluation of an expression force at a coordinate state
\* ------------------------------------------------------------------------

\* Exact fractions [n, d] in lowest terms with d > 0; Undefined (d = 0) is the
\* value of an expression the engine refuses or cannot compute.
Undefined == [n |-> 0, d |-> 0]

Abs(a) == IF a < 0 THEN -a ELSE a

RECURSIVE Gcd(_, _)
Gcd(a, b) == IF b = 0 THEN a ELSE Gcd(b, a % b)

Frac(n, d) ==
    IF d = 0 THEN Undefined
    ELSE LET g == Gcd(Abs(n), Abs(d))
             sgn == IF d < 0 THEN -1 ELSE 1
         IN [n |-> sgn * (n \div g), d |-> sgn * (d \div g)]

Whole(n) == [n |-> n, d |-> 1]

\* Sums are taken over the least common denominator, which keeps the numbers
\* small
Lcm(a, b) == (a \div Gcd(a, b)) * b

FAdd(a, b) ==
    IF a.d = 0 \/ b.d = 0 THEN Undefined
    ELSE LET l == Lcm(a.d, b.d)
         IN Frac(a.n * (l \div a.d) + b.n * (l \div b.d), l)

FSub(a, b) ==
    IF a.d = 0 \/ b.d = 0 THEN Undefined
    ELSE LET l == Lcm(a.d, b.d)
         IN Frac(a.n * (l \div a.d) - b.n * (l \div b.d), l)

FMul(a, b) ==
    IF a.d = 0 \/ b.d = 0 THEN Undefined ELSE Frac(a.n * b.n, a.d * b.d)

FDiv(a, b) ==
    IF a.d = 0 \/ b.d = 0 THEN Undefined ELSE Frac(a.n * b.d, a.d * b.n)

RECURSIVE IntPow(_, _)
IntPow(b, e) ==
    IF e = 0 THEN 1
    ELSE LET h == IntPow(b, e \div 2)
         IN IF e % 2 = 0 THEN h * h ELSE h * h * b

\* a ^ b for a whole exponent b >= 0
FPow(a, b) ==
    IF a.d = 0 \/ b.d # 1 \/ b.n < 0 THEN Undefined
    ELSE [n |-> IntPow(a.n, b.n), d |-> IntPow(a.d, b.n)]

IsDigit(c) == c \in {"0", "1", "2", "3", "4", "5", "6", "7", "8", "9"}

IsLetter(c) ==
    c \in {"a", "b", "c", "d", "e", "f", "g", "h", "i", "j", "k", "l", "m",
           "n", "o", "p", "q", "r", "s", "t", "u", "v", "w", "x", "y", "z", "_"}

DigitValue(c) ==
    CHOOSE v \in 0..9 : Digit(v) = c

\* The first position from p on that holds no letter or digit
RECURSIVE NameEnd(_, _)
NameEnd(s, p) ==
    IF p <= Len(s) /\ (IsLetter(s[p]) \/ IsDigit(s[p])) THEN NameEnd(s, p + 1) ELSE p

RECURSIVE NumberEnd(_, _)
NumberEnd(s, p) ==
    IF p <= Len(s) /\ IsDigit(s[p]) THEN NumberEnd(s, p + 1) ELSE p

\* The number written in s[p..q-1]
RECURSIVE NumberValue(_, _, _)
NumberValue(s, p, q) ==
    IF q <= p THEN 0 ELSE 10 * NumberValue(s, p, q - 1) + DigitValue(s[q - 1])

\* A parse result: the value and the position after the text used.  A
\* refused text has the value Undefined.
Refused(s) == [v |-> Undefined, p |-> Len(s) + 1]

At(s, p, c) == p <= Len(s) /\ s[p] = c

\* The members of a set of numbers in increasing order
Sorted(S) ==
    LET seq == [i \in 1..Cardinality(S) |->
                  CHOOSE p \in S : Cardinality({q \in S : q <= p}) = i]
    IN SubSeq(seq, 1, Cardinality(S))

\* How many parentheses are open after the last character of s[lo..hi],
\* counted from lo
Open(s, lo, hi) ==
    Cardinality({q \in lo..hi : s[q] = "("}) - Cardinality({q \in lo..hi : s[q] = ")"})

\* How many parentheses are open after each character of s[lo..hi], counted
\* from lo: a long text is taken by halves
RECURSIVE Depths(_, _, _)
Depths(s, lo, hi) ==
    IF hi - lo < 16
    THEN SubSeq([k \in 1..(hi - lo + 1) |-> Open(s, lo, lo + k - 1)], 1, hi - lo + 1)
    ELSE LET mid == (lo + hi) \div 2
             left == Depths(s, lo, mid)
             right == Depths(s, mid + 1, hi)
             open == left[Len(left)]
         IN left \o SubSeq([k \in 1..Len(right) |-> right[k] + open], 1, Len(right))

\* The position of the parenthesis that closes the one at p, 0 if none does
Closing(s, p) ==
    LET depth == Depths(s, p, Len(s))
        at == {q \in 1..Len(depth) : depth[q] = 0}
    IN IF at = {} THEN 0
       ELSE p - 1 + CHOOSE q \in at : \A r \in at : q <= r

\* The expression grammar: sums of products of powers of numbers, names and
\* parenthesised expressions; a name followed by "(" is a function call, and
\* no function is known here.  A sum is the sum of its terms, which are what
\* stands between the signs outside all parentheses; the terms are added by
\* halves.
RECURSIVE ParseAll(_, _)
RECURSIVE SumTerms(_, _, _, _, _)
RECURSIVE ParseProduct(_, _, _)
RECURSIVE ParseProductRest(_, _, _, _)
RECURSIVE ParsePower(_, _, _)
RECURSIVE ParseAtom(_, _, _)

ParseAtom(s, p, env) ==
    IF p > Len(s) THEN Refused(s)
    ELSE IF s[p] = "("
    THEN LET q == Closing(s, p)
         IN IF q = 0 THEN Refused(s)
            ELSE LET v == ParseAll(SubSeq(s, p + 1, q - 1), env)
                 IN IF v.d # 0 THEN [v |-> v, p |-> q + 1] ELSE Refused(s)
    ELSE IF IsDigit(s[p])
    THEN LET q == NumberEnd(s, p)
         IN [v |-> Whole(NumberValue(s, p, q)), p |-> q]
    ELSE IF IsLetter(s[p])
    THEN LET q == NameEnd(s, p)
             name == SubSeq(s, p, q - 1)
         IN IF At(s, q, "(") \/ name \notin DOMAIN env THEN Refused(s)
            ELSE [v |-> env[name], p |-> q]
    ELSE Refused(s)

ParsePower(s, p, env) ==
    LET a == ParseAtom(s, p, env)
    IN IF a.v.d # 0 /\ At(s, a.p, "^")
       THEN LET b == ParsePower(s, a.p + 1, env)
            IN IF b.v.d = 0 THEN Refused(s)
               ELSE [v |-> FPow(a.v, b.v), p |-> b.p]
       ELSE a

ParseProductRest(s, acc, p, env) ==
    IF At(s, p, "*") \/ At(s, p, "/")
    THEN LET b == ParsePower(s, p + 1, env)
         IN IF b.v.d = 0 THEN Refused(s)
            ELSE ParseProductRest(s,
                    IF s[p] = "*" THEN FMul(acc, b.v) ELSE FDiv(acc, b.v),
                    b.p, env)
    ELSE [v |-> acc, p |-> p]

ParseProduct(s, p, env) ==
    LET a == ParsePower(s, p, env)
    IN IF a.v.d = 0 THEN Refused(s) ELSE ParseProductRest(s, a.v, a.p, env)

\* The value of a whole term s, Undefined unless all of it is used
ParseTerm(s, env) ==
    LET r == ParseProduct(s, 1, env)
    IN IF r.v.d # 0 /\ r.p = Len(s) + 1 THEN r.v ELSE Undefined

\* The sum of the terms lo..hi of a sum: term k stands between the signs (or
\* ends) at cuts[k] and cuts[k + 1]
SumTerms(s, cuts, lo, hi, env) ==
    IF lo = hi
    THEN LET v == ParseTerm(SubSeq(s, cuts[lo] + 1, cuts[lo + 1] - 1), env)
         IN IF lo > 1 /\ s[cuts[lo]] = "-" THEN FSub(Whole(0), v) ELSE v
    ELSE LET mid == (lo + hi) \div 2
             first == SumTerms(s, cuts, lo, mid, env)
         IN IF first.d = 0 THEN Undefined
            ELSE FAdd(first, SumTerms(s, cuts, mid + 1, hi, env))

\* The value of the whole text s, Undefined if any of it is refused
ParseAll(s, env) ==
    LET depth == Depths(s, 1, Len(s))
        signs == {p \in 1..Len(s) : s[p] \in {"+", "-"} /\ depth[p] = 0}
        cuts == <<0>> \o Sorted(signs) \o <<Len(s) + 1>>
    IN IF Len(cuts) = 2 THEN ParseTerm(s, env)
       ELSE SumTerms(s, cuts, 1, Len(cuts) - 1, env)

\* The first position of c in s, 0 if there is none
FindFirst(s, c) ==
    LET at == {p \in 1..Len(s) : s[p] = c}
    IN IF at = {} THEN 0 ELSE CHOOSE p \in at : \A q \in at : p <= q

\* f extended by name |-> v
Bind(f, name, v) == (name :> v) @@ f

\* The text is split at its semicolons: the first part is the expression,
\* every other part is a definition "name=expression".  The definitions are
\* read from the last to the first, each in terms of the variables and of the
\* definitions read before it; then the expression is read.  One refused part
\* refuses the whole text.

\* The part of s between the semicolons (or ends) at cuts[k] and cuts[k + 1]
Part(s, cuts, k) == SubSeq(s, cuts[k] + 1, cuts[k + 1] - 1)

\* One definition read: st is [ok, env]
ReadDefinition(sub, st) ==
    LET eq == FindFirst(sub, "=")
    IN IF Len(sub) = 0 THEN st
       ELSE IF eq <= 1 THEN [ok |-> FALSE, env |-> st.env]
       ELSE LET v == ParseAll(SubSeq(sub, eq + 1, Len(sub)), st.env)
            IN IF v.d = 0 THEN [ok |-> FALSE, env |-> st.env]
               ELSE [ok |-> TRUE, env |-> Bind(st.env, SubSeq(sub, 1, eq - 1), v)]

\* The parts hi, hi - 1, ..., lo read in this order, taken by halves
RECURSIVE ReadDefinitions(_, _, _, _, _)
ReadDefinitions(s, cuts, lo, hi, st) ==
    IF hi < lo THEN st
    ELSE IF lo = hi THEN ReadDefinition(Part(s, cuts, lo), st)
    ELSE LET mid == (lo + hi) \div 2
             first == ReadDefinitions(s, cuts, mid + 1, hi, st)
         IN IF first.ok THEN ReadDefinitions(s, cuts, lo, mid, first) ELSE first

Evaluate(s, variables) ==
    LET semis == {p \in 1..Len(s) : s[p] = ";"}
        cuts == <<0>> \o Sorted(semis) \o <<Len(s) + 1>>
        defs == ReadDefinitions(s, cuts, 2, Len(cuts) - 1,
                                [ok |-> TRUE, env |-> variables])
    IN IF defs.ok THEN ParseAll(Part(s, cuts, 1), defs.env) ELSE Undefined

\* The RMSD (in the units of thresholdRMSD) of a group of atoms from the ideal
\* positions at coordinate state `frame`: some value fixed by the atoms, the
\* reference and the coordinates.
RmsdValues == <<0, 4, 8, 16>>

RmsdAt(group, referencePositions, frame) ==
    LET first == IF Len(group) = 0 THEN 0 ELSE group[1]
        last == IF Len(group) = 0 THEN 0 ELSE group[Len(group)]
        ref == IF referencePositions.file = ParallelFile THEN 1 ELSE 0
    IN Whole(RmsdValues[(((first \div 6) * 7 + last + frame + ref) % 4) + 1])

\* The value of a collective variable at coordinate state `frame`: an RMSD,
\* or an expression over the values of its own collective variables
RECURSIVE Value(_, _)
Value(cv, frame) ==
    IF cv.type = "RMSD" THEN RmsdAt(cv.group, cv.referencePositions, frame)
    ELSE LET names == {cv.cvs[k].name : k \in 1..Len(cv.cvs)}
             of(nm) == CHOOSE k \in 1..Len(cv.cvs) : cv.cvs[k].name = nm
             values == [nm \in names |-> Value(cv.cvs[of(nm)].cv, frame)]
         IN IF \E nm \in names : values[nm].d = 0 THEN Undefined
            ELSE Evaluate(cv.expression, values)

\* ------------------------------------------------------------------------
\* Units (cvpack.unit.convert_quantities) and serialization
\* ------------------------------------------------------------------------

\* A quantity is [value, unit]; a plain number has unit "md".  The decorator
\* turns every quantity argument into its value in the MD unit system
\* (nanometers): 1 angstrom is 0.1 nm.
convert_quantities(q) ==
    IF q.unit = "angstrom" THEN [value |-> q.value \div 10, unit |-> "md"]
    ELSE [value |-> q.value, unit |-> "md"]

\* SerializableResidue(residue): a residue that keeps name, id and atoms
SerializableResidue(residue) ==
    [name |-> residue.name, id |-> residue.id, atoms |-> residue.atoms]

\* ------------------------------------------------------------------------
\* State
\* ------------------------------------------------------------------------

VARIABLES
    pc,          \* the constructor's position
    cls,         \* the class being constructed
    call,        \* SheetRMSDContent.__init__'s arguments
    rargs,       \* RMSDContent.__init__'s arguments
    self,        \* the object under construction
    block_atoms, \* the local of lines 43-46
    error,       \* the exception raised, NoError if none
    round,       \* 1: the caller's construction, 2: the deserializer's
    original,    \* round 2: the object of round 1
    PARABETA_POSITIONS, \* the module-level name of line 21
    ANTIBETA_POSITIONS, \* the module-level name of line 22
    loads,       \* how many times each file has been loaded in the process
    handed,      \* history: (parallel, table) of every super().__init__
    ncalls       \* how many constructions the caller has started

\* The module-level tables and the history of the process
process == <<PARABETA_POSITIONS, ANTIBETA_POSITIONS, loads, handed, ncalls>>

vars == <<pc, cls, call, rargs, self, block_atoms, error, round, original,
          process>>

NoArgs == [residue_blocks |-> <<>>, ideal_positions |-> Unbound, residues |-> <<>>,
           numAtoms |-> 0, thresholdRMSD |-> 0, stepFunction |-> <<>>,
           normalize |-> FALSE]

NoCall == [residues |-> <<>>, numAtoms |-> 0, parallel |-> FALSE,
           blockSizes |-> None, thresholdRMSD |-> [value |-> 0, unit |-> "md"],
           stepFunction |-> <<>>, normalize |-> FALSE]

\* ------------------------------------------------------------------------
\* Inputs
\* ------------------------------------------------------------------------

\* stepFunction's default, "(1+x^4)/(1+x^4+x^8)"
DefaultStepFunction ==
    <<"(", "1", "+", "x", "^", "4", ")", "/",
      "(", "1", "+", "x", "^", "4", "+", "x", "^", "8", ")">>

StepFunctions == {DefaultStepFunction, <<"x">>, <<"1", "/", "(", "1", "+", "x", ")">>}

\* The atoms of residue number k (from 0) of a chain, by kind.  Every residue
\* owns six consecutive atom indices.
AtomNames(kind) ==
    CASE kind = "ALA"       -> <<"N", "H", "CA", "CB", "C", "O">>
      [] kind = "GLY"       -> <<"N", "H", "CA", "HA2", "C", "O">>
      [] kind = "GLY_CB"    -> <<"N", "CA", "CB", "HA2", "C", "O">>
      [] kind = "GLY_noHA2" -> <<"N", "H", "CA", "C", "O">>
      [] kind = "GLY_noN"   -> <<"H", "CA", "HA2", "C", "O">>
      [] kind = "GLY_noN_HA2" -> <<"H", "CA", "C", "O">>
      [] kind = "ALA_noN"   -> <<"H", "CA", "CB", "C", "O">>
      [] kind = "ALA_noCA"  -> <<"N", "H", "CB", "C", "O">>
      [] kind = "ALA_noCB"  -> <<"N", "H", "CA", "C", "O">>
      [] kind = "ALA_noC"   -> <<"N", "H", "CA", "CB", "O">>
      [] kind = "ALA_noO"   -> <<"N", "H", "CA", "CB", "C">>
      [] kind = "ALA_noCA_O" -> <<"N", "H", "CB", "C">>

ResidueKinds ==
    {"ALA", "GLY", "GLY_CB", "GLY_noHA2", "GLY_noN", "GLY_noN_HA2", "ALA_noN",
     "ALA_noCA", "ALA_noCB", "ALA_noC", "ALA_noO", "ALA_noCA_O"}

ResidueName(kind) == IF kind \in {"GLY", "GLY_CB", "GLY_noHA2", "GLY_noN",
                                      "GLY_noN_HA2"}
                     THEN "GLY" ELSE "ALA"

Residue(k, kind) ==
    [name |-> ResidueName(kind), id |-> k + 1,
     atoms |-> [m \in 1..Len(AtomNames(kind)) |->
                   [name |-> AtomNames(kind)[m], index |-> 6 * k + m - 1]]]

\* n residues, all alanine but for the kinds given for some positions
Residues(n, kinds) ==
    [k \in 1..n |-> Residue(k - 1, IF k \in DOMAIN kinds THEN kinds[k] ELSE "ALA")]

\* All sequences over S of length at most n
RECURSIVE SeqsUpTo(_, _)
SeqsUpTo(S, n) ==
    IF n = 0 THEN {<<>>}
    ELSE LET shorter == SeqsUpTo(S, n - 1)
         IN shorter \cup {Append(q, x) : q \in {r \in shorter : Len(r) = n - 1}, x \in S}

Plain(v) == [value |-> v, unit |-> "md"]

\* Unblocked sheets over healthy residues, of every length
UnblockedCalls ==
    {[residues |-> Residues(n, <<>>), numAtoms |-> 6 * n, parallel |-> par,
      blockSizes |-> None, thresholdRMSD |-> Plain(8),
      stepFunction |-> <<"x">>, normalize |-> norm] :
        n \in 0..MaxResidues, par \in BOOLEAN, norm \in BOOLEAN}

\* Blocked sheets: every list of block sizes, with a residue count that does
\* or does not match their sum; the threshold as a number and as a quantity
BlockedCalls ==
    UNION {{[residues |-> Residues(n, <<>>), numAtoms |-> 6 * n,
             parallel |-> par, blockSizes |-> sizes,
             thresholdRMSD |-> IF par THEN Plain(8)
                               ELSE [value |-> 80, unit |-> "angstrom"],
             stepFunction |-> DefaultStepFunction, normalize |-> ~par] :
               par \in BOOLEAN,
               sizes \in {q \in SeqsUpTo(0..MaxBlockSize, MaxNumBlocks) :
                            Sum(q) \in {n, n + 1}}} :
           n \in 0..(MaxBlockSize * MaxNumBlocks)}

\* Sheets with one or two residues that are not a healthy alanine
DefectKinds ==
    UNION {[{p} -> ResidueKinds \ {"ALA"}] : p \in 1..MaxDefectResidues}
    \cup UNION {[{p, q} -> {"GLY", "GLY_noHA2", "ALA_noN", "ALA_noCA_O"}] :
                  p \in 1..MaxDefectResidues, q \in 1..MaxDefectResidues}

DefectCalls ==
    {[residues |-> Residues(n, kinds), numAtoms |-> 6 * n, parallel |-> FALSE,
      blockSizes |-> None, thresholdRMSD |-> [value |-> 8, unit |-> "nanometer"],
      stepFunction |-> DefaultStepFunction, normalize |-> FALSE] :
        n \in (MaxDefectResidues - 1)..MaxDefectResidues,
        kinds \in DefectKinds}

\* RMSDContent.__init__ called with a list of residue blocks of any length
\* up to MaxDirectBlocks, and with the lengths around the largest accepted
DirectArgsOf(n, thr, sf, norm) ==
    [residue_blocks |-> [k \in 1..n |-> <<(k - 1) % 3, k % 3>>],
     ideal_positions |-> loadPositions("IDEAL", 0),
     residues |-> Residues(3, <<>>),
     numAtoms |-> 18, thresholdRMSD |-> thr, stepFunction |-> sf,
     normalize |-> norm]

DirectArgs ==
    {DirectArgsOf(n, 8, sf, norm) :
        n \in 0..MaxDirectBlocks, sf \in StepFunctions, norm \in BOOLEAN}
    \cup {DirectArgsOf(n, 16, <<"x">>, norm) :
            n \in (0..MaxDirectBlocks) \cup {MaxBlocks - 1, MaxBlocks, MaxBlocks + 1},
            norm \in BOOLEAN}

Start(calls, args) ==
    /\ self = NewSelf
    /\ block_atoms = <<>>
    /\ error = NoError
    /\ round = 1
    /\ original = NewSelf
    /\ PARABETA_POSITIONS = loadPositions(ParallelFile, 1)
    /\ ANTIBETA_POSITIONS = loadPositions(AntiparallelFile, 1)
    /\ loads = [f \in {ParallelFile, AntiparallelFile} |-> 1]
    /\ handed = {}
    /\ ncalls = 1
    /\ \/ /\ cls = "SheetRMSDContent"
          /\ pc = "sheet_init"
          /\ call \in calls
          /\ rargs = NoArgs
       \/ /\ cls = "RMSDContent"
          /\ pc = "rmsd_init"
          /\ call = NoCall
          /\ rargs \in args

Init == Start(UnblockedCalls \cup BlockedCalls \cup DefectCalls, DirectArgs)

\* The constructions whose result is evaluated: as Init, without the long
\* unblocked sequences and the sheets of many blocks
InitValue ==
    Start({c \in UnblockedCalls : Len(c.residues) <= MaxValueResidues}
            \cup {c \in BlockedCalls : Len(c.blockSizes) <= MaxValueBlocks}
            \cup DefectCalls,
          DirectArgs)

\* ------------------------------------------------------------------------
\* SheetRMSDContent.__init__, lines 189-219: the groups, then super().__init__
\* ------------------------------------------------------------------------

Raise(e) ==
    /\ pc' = "raised"
    /\ error' = e

SheetEnumerate ==
    /\ pc = "sheet_init"
    /\ LET n == Len(call.residues)
           thr == convert_quantities(call.thresholdRMSD).value
           table == IF call.parallel THEN PARABETA_POSITIONS
                    ELSE ANTIBETA_POSITIONS
           super(residue_groups) ==
               /\ rargs' = [residue_blocks |-> residue_groups,
                            ideal_positions |-> table,
                            residues |-> call.residues,
                            numAtoms |-> call.numAtoms,
                            thresholdRMSD |-> thr,
                            stepFunction |-> call.stepFunction,
                            normalize |-> call.normalize]
               /\ pc' = "rmsd_init"
               /\ handed' = handed \cup {<<call.parallel, table>>}
               /\ UNCHANGED error
       IN IF call.blockSizes = None
          THEN super(UnblockedGroups(n, call.parallel))
          ELSE IF Sum(call.blockSizes) = n
               THEN super(BlockedGroups(call.blockSizes))
               ELSE /\ Raise([type |-> "ValueError", what |-> "block_sizes_sum",
                              atom |-> "", residue |-> <<>>])
                    /\ UNCHANGED <<rargs, handed>>
    /\ UNCHANGED <<cls, call, self, block_atoms, round, original>>
    /\ UNCHANGED <<PARABETA_POSITIONS, ANTIBETA_POSITIONS, loads, ncalls>>

\* ------------------------------------------------------------------------
\* RMSDContent.__init__
\* ------------------------------------------------------------------------

\* CheckCount refusing the largest count too: num_residue_blocks < 1024
CheckCount_exclusive ==
    /\ pc = "rmsd_init"
    /\ LET num_residue_blocks == Len(rargs.residue_blocks)
       IN /\ self' = [self EXCEPT !.num_residue_blocks = num_residue_blocks]
          /\ IF ~(1 <= num_residue_blocks /\ num_residue_blocks < MaxBlocks)
             THEN Raise([type |-> "ValueError", what |-> "block_count",
                         atom |-> "", residue |-> <<>>])
             ELSE /\ pc' = "atoms"
                  /\ UNCHANGED error
    /\ UNCHANGED <<cls, call, rargs, block_atoms, round, original,
                   process>>

\* lines 36-41
CheckCount ==
    /\ pc = "rmsd_init"
    /\ LET num_residue_blocks == Len(rargs.residue_blocks)
       IN /\ self' = [self EXCEPT !.num_residue_blocks = num_residue_blocks]
          /\ IF ~(1 <= num_residue_blocks /\ num_residue_blocks <= MaxBlocks)
             THEN Raise([type |-> "ValueError", what |-> "block_count",
                         atom |-> "", residue |-> <<>>])
             ELSE /\ pc' = "atoms"
                  /\ UNCHANGED error
    /\ UNCHANGED <<cls, call, rargs, block_atoms, round, original,
                   process>>

\* GetAtoms run after super().__init__: the force expression is initialised
\* before the atoms are looked up
GetAtoms_late ==
    /\ pc = "atoms"
    /\ LET residues == rargs.residues
           results == [k \in 1..Len(residues) |-> getAtomList(residues[k])]
           bad == {k \in 1..Len(residues) : ~results[k].ok}
       IN /\ self' = [self EXCEPT
                        !.initialised = TRUE,
                        !.expression = TopExpression(self.num_residue_blocks,
                                                     rargs.stepFunction,
                                                     rargs.thresholdRMSD,
                                                     rargs.normalize)]
          /\ IF bad # {}
             THEN /\ Raise(results[CHOOSE k \in bad : \A m \in bad : k <= m].error)
                  /\ UNCHANGED block_atoms
             ELSE /\ block_atoms' =
                        [b \in 1..Len(rargs.residue_blocks) |->
                           Concat([m \in 1..Len(rargs.residue_blocks[b]) |->
                                     results[rargs.residue_blocks[b][m] + 1].atom_list])]
                  /\ pc' = "super_init"
                  /\ UNCHANGED error
    /\ UNCHANGED <<cls, call, rargs, round, original,
                   process>>

\* lines 42-46: list(map(self._getAtomList, residues)) stops at the first
\* residue that raises
GetAtoms ==
    /\ pc = "atoms"
    /\ LET residues == rargs.residues
           results == [k \in 1..Len(residues) |-> getAtomList(residues[k])]
           bad == {k \in 1..Len(residues) : ~results[k].ok}
       IN IF bad # {}
          THEN /\ Raise(results[CHOOSE k \in bad : \A m \in bad : k <= m].error)
               /\ UNCHANGED block_atoms
          ELSE /\ block_atoms' =
                     [b \in 1..Len(rargs.residue_blocks) |->
                        Concat([m \in 1..Len(rargs.residue_blocks[b]) |->
                                  results[rargs.residue_blocks[b][m] + 1].atom_list])]
               /\ pc' = "super_init"
               /\ UNCHANGED error
    /\ UNCHANGED <<cls, call, rargs, self, round, original,
                   process>>

\* lines 48-65: super().__init__(...) with the summation
InitForce ==
    /\ pc = "super_init"
    /\ self' = [self EXCEPT
                  !.initialised = TRUE,
                  !.expression = TopExpression(self.num_residue_blocks,
                                               rargs.stepFunction,
                                               rargs.thresholdRMSD,
                                               rargs.normalize)]
    /\ pc' = "add"
    /\ UNCHANGED <<cls, call, rargs, block_atoms, error, round, original,
                   process>>

\* lines 66-72, then the return to the caller
AddCollectiveVariables ==
    /\ pc = "add"
    /\ self' = [self EXCEPT
                  !.cvs = AddLoop(0, self.num_residue_blocks,
                                  [force |-> 0, cvs |-> self.cvs],
                                  [block_atoms |-> block_atoms,
                                   ideal_positions |-> rargs.ideal_positions,
                                   numAtoms |-> rargs.numAtoms,
                                   stepFunction |-> rargs.stepFunction,
                                   thresholdRMSD |-> rargs.thresholdRMSD]).cvs]
    /\ block_atoms' = <<>>
    /\ pc' = IF cls = "SheetRMSDContent" THEN "register" ELSE "done"
    /\ UNCHANGED <<cls, call, rargs, error, round, original,
                   process>>

\* ------------------------------------------------------------------------
\* SheetRMSDContent.__init__, lines 220-229
\* ------------------------------------------------------------------------

\* RegisteredArgs with the two flags out of the declared order
RegisteredArgs_flags_exchanged ==
    <<[k \in 1..Len(call.residues) |-> SerializableResidue(call.residues[k])],
      call.numAtoms,
      call.normalize,
      call.blockSizes,
      convert_quantities(call.thresholdRMSD),
      call.stepFunction,
      call.parallel>>

\* The arguments handed to self._registerCV after the unit
RegisteredArgs ==
    <<[k \in 1..Len(call.residues) |-> SerializableResidue(call.residues[k])],
      call.numAtoms,
      call.parallel,
      call.blockSizes,
      convert_quantities(call.thresholdRMSD),
      call.stepFunction,
      call.normalize>>

RegisterCV ==
    /\ pc = "register"
    /\ self' = [self EXCEPT !.registered = TRUE, !.cvargs = RegisteredArgs]
    /\ pc' = "done"
    /\ UNCHANGED <<cls, call, rargs, block_atoms, error, round, original,
                   process>>

\* ------------------------------------------------------------------------
\* Serializer: serialize(cv) followed by deserialize
\* ------------------------------------------------------------------------

\* The record written for a registered collective variable: its class and
\* the arguments it registered
serialize(cv) == [tag |-> "SheetRMSDContent", arguments |-> cv.cvargs]

\* The constructor call the deserializer makes from a record: the arguments
\* in the record's order, bound to the constructor's parameters in order
deserialize(record) ==
    [residues |-> record.arguments[1],
     numAtoms |-> record.arguments[2],
     parallel |-> record.arguments[3],
     blockSizes |-> record.arguments[4],
     thresholdRMSD |-> record.arguments[5],
     stepFunction |-> record.arguments[6],
     normalize |-> record.arguments[7]]

\* perform_common_tests, lines 85-88: the collective variable is written and
\* read back, which constructs a second object
RoundTrip ==
    /\ pc = "done"
    /\ round = 1
    /\ self.registered
    /\ call' = deserialize(serialize(self))
    /\ original' = self
    /\ self' = NewSelf
    /\ rargs' = NoArgs
    /\ round' = 2
    /\ pc' = "sheet_init"
    /\ UNCHANGED <<cls, block_atoms, error,
                   process>>

Next ==
    \/ SheetEnumerate
    \/ CheckCount
    \/ GetAtoms
    \/ InitForce
    \/ AddCollectiveVariables
    \/ RegisterCV
    \/ RoundTrip

Spec == Init /\ [][Next]_vars

SpecValue == InitValue /\ [][Next]_vars

\* Step functions in the placeholder x: the three of StepFunctions, and two
\* that call a function whose name holds the letter x, "exp(-x)" and
\* "max(0,1-x)"
Templates ==
    StepFunctions \cup
    {<<"e", "x", "p", "(", "-", "x", ")">>,
     <<"m", "a", "x", "(", "0", ",", "1", "-", "x", ")">>}

TemplateCalls ==
    {[residues |-> Residues(n, <<>>), numAtoms |-> 6 * n, parallel |-> par,
      blockSizes |-> None, thresholdRMSD |-> Plain(8),
      stepFunction |-> sf, normalize |-> norm] :
        n \in 8..MaxTemplateResidues, par \in BOOLEAN, sf \in Templates,
        norm \in BOOLEAN}

TemplateArgs ==
    {DirectArgsOf(n, 8, sf, norm) :
        n \in 0..MaxTemplateBlocks, sf \in Templates, norm \in BOOLEAN}

\* The constructions with a step function of the caller's
InitTemplate == Start(TemplateCalls, TemplateArgs)

SpecTemplate == InitTemplate /\ [][Next]_vars

\* ------------------------------------------------------------------------
\* A process: the module is imported, then sheets are constructed one after
\* the other
\* ------------------------------------------------------------------------

\* The sheets a process constructs: unblocked, of either variant; the
\* parallel sheet of 8 residues has no group and fails
ProcessCalls ==
    {[residues |-> Residues(n, <<>>), numAtoms |-> 6 * n, parallel |-> par,
      blockSizes |-> None, thresholdRMSD |-> Plain(8),
      stepFunction |-> <<"x">>, normalize |-> FALSE] :
        n \in 8..MaxProcessResidues, par \in BOOLEAN}

\* The process before sheet_rmsd_content is imported; `call` is the first
\* construction the caller will make
InitProcess ==
    /\ pc = "import"
    /\ cls = "SheetRMSDContent"
    /\ call \in ProcessCalls
    /\ rargs = NoArgs
    /\ self = NewSelf
    /\ block_atoms = <<>>
    /\ error = NoError
    /\ round = 1
    /\ original = NewSelf
    /\ PARABETA_POSITIONS = Unbound
    /\ ANTIBETA_POSITIONS = Unbound
    /\ loads = [f \in {ParallelFile, AntiparallelFile} |-> 0]
    /\ handed = {}
    /\ ncalls = 1

\* ImportModule binding each name to the other variant's file
ImportModule_exchanged ==
    /\ pc = "import"
    /\ PARABETA_POSITIONS' =
           loadPositions(AntiparallelFile, loads[AntiparallelFile] + 1)
    /\ ANTIBETA_POSITIONS' =
           loadPositions(ParallelFile, loads[ParallelFile] + 1)
    /\ loads' = [loads EXCEPT ![ParallelFile] = @ + 1,
                              ![AntiparallelFile] = @ + 1]
    /\ pc' = "sheet_init"
    /\ UNCHANGED <<cls, call, rargs, self, block_atoms, error, round, original,
                   handed, ncalls>>

\* sheet_rmsd_content.py lines 20-23: the module body, run once when the
\* module is imported, loads both tables
ImportModule ==
    /\ pc = "import"
    /\ PARABETA_POSITIONS' =
           loadPositions(ParallelFile, loads[ParallelFile] + 1)
    /\ ANTIBETA_POSITIONS' =
           loadPositions(AntiparallelFile, loads[AntiparallelFile] + 1)
    /\ loads' = [loads EXCEPT ![ParallelFile] = @ + 1,
                              ![AntiparallelFile] = @ + 1]
    /\ pc' = "sheet_init"
    /\ UNCHANGED <<cls, call, rargs, self, block_atoms, error, round, original,
                   handed, ncalls>>

\* The caller constructs another sheet once a construction has returned or
\* raised (docstring example, lines 153 and 166)
NewCall ==
    /\ pc \in {"done", "raised"}
    /\ ncalls < MaxCalls
    /\ call' \in ProcessCalls
    /\ rargs' = NoArgs
    /\ self' = NewSelf
    /\ block_atoms' = <<>>
    /\ error' = NoError
    /\ round' = 1
    /\ original' = NewSelf
    /\ ncalls' = ncalls + 1
    /\ pc' = "sheet_init"
    /\ UNCHANGED <<cls, PARABETA_POSITIONS, ANTIBETA_POSITIONS, loads, handed>>

NextProcess ==
    \/ ImportModule
    \/ NewCall
    \/ Next

SpecProcess == InitProcess /\ [][NextProcess]_vars

\* ------------------------------------------------------------------------
\* What the properties speak of
\* ------------------------------------------------------------------------

\* The coordinate states the values are compared at
Frames == {0, 1}

\* The finished object as the engine sees it: an expression force
AsForce(obj) ==
    [type |-> "CustomCVForce", expression |-> obj.expression, cvs |-> obj.cvs,
     referencePositions |-> "", group |-> <<>>, numAtoms |-> 0]

\* The atoms of group b (from 1) of the construction under way
GroupAtoms(b) ==
    Concat([m \in 1..Len(rargs.residue_blocks[b]) |->
              getAtomList(rargs.residues[rargs.residue_blocks[b][m] + 1]).atom_list])

\* S(rmsd_i / threshold) for group i (from 0): the step function at the
\* group's RMSD over the threshold
StepTerm(i, frame) ==
    LET x == FDiv(RmsdAt(GroupAtoms(i + 1), rargs.ideal_positions, frame),
                  Whole(rargs.thresholdRMSD))
    IN ParseAll(rargs.stepFunction, [nm \in {<<"x">>} |-> x])

\* The sum of S(rmsd_i / threshold) over lo <= i < hi
RECURSIVE StepSum(_, _, _)
StepSum(lo, hi, frame) ==
    IF hi <= lo THEN Whole(0)
    ELSE IF hi = lo + 1 THEN StepTerm(lo, frame)
    ELSE LET mid == (lo + hi) \div 2
         IN FAdd(StepSum(lo, mid, frame), StepSum(mid, hi, frame))

\* The names defined in an expression text, first to last: what stands
\* before the "=" of every part after a semicolon
DefinedNames(s) ==
    LET semis == {p \in 1..Len(s) : s[p] = ";"}
        cuts == <<0>> \o Sorted(semis) \o <<Len(s) + 1>>
    IN [k \in 1..(Len(cuts) - 2) |->
          LET sub == Part(s, cuts, k + 1)
          IN SubSeq(sub, 1, FindFirst(sub, "=") - 1)]

\* The sum of the values of a list of collective variables
RECURSIVE ValueSum(_, _, _, _)
ValueSum(cvs, lo, hi, frame) ==
    IF hi < lo THEN Whole(0)
    ELSE IF lo = hi THEN Value(cvs[lo].cv, frame)
    ELSE LET mid == (lo + hi) \div 2
         IN FAdd(ValueSum(cvs, lo, mid, frame), ValueSum(cvs, mid + 1, hi, frame))

Sheet == cls = "SheetRMSDContent"

Unblocked == Sheet /\ call.blockSizes = None

Blocked == Sheet /\ call.blockSizes # None

\* RMSDContent.__init__ has run past its check of the number of groups, or
\* has failed in it
CountChecked ==
    /\ pc \notin {"sheet_init", "rmsd_init"}
    /\ error.what # "block_sizes_sum"

\* The constructor is past line 41
CountPassed == pc \in {"atoms", "super_init", "add", "register", "done"}

\* ------------------------------------------------------------------------
\* C1
\* ------------------------------------------------------------------------

\* C1: a finished composite evaluates to the sum over all N groups of
\* S(rmsd_i / threshold), divided by N when normalize is set, for N <= 32
\* (one expression) as for N > 32 (sum of chunk variables).
\* The code breaks this for normalize with N <= 32: line 64 wraps the
\* summation, definitions included, in "(...)/N", a text the engine refuses.
C1_NormalizedValue ==
    pc = "done" =>
        \A frame \in Frames :
            Value(AsForce(self), frame) =
                IF rargs.normalize
                THEN FDiv(StepSum(0, self.num_residue_blocks, frame),
                          Whole(self.num_residue_blocks))
                ELSE StepSum(0, self.num_residue_blocks, frame)

\* ------------------------------------------------------------------------
\* C2
\* ------------------------------------------------------------------------

\* C2: for N > 32 there are exactly ceil(N/32) chunks; chunk k (from 0) is
\* named chunk<k>, defines and sums S(x_i) for exactly the indices
\* 32k <= i < min(32k + 32, N), and holds exactly the leaves rmsd_i of those
\* indices, each over the atoms of group i, so that every leaf is registered
\* once, on chunk floor(i/32), and none on the composite itself; and the
\* chunk values add up to the sum of S(x_i) over all i.
C2_ChunkingIsAPartition ==
    (pc = "done" /\ self.num_residue_blocks > 32) =>
        LET n == self.num_residue_blocks
            chunks == self.cvs
            lo(k) == 32 * (k - 1)
            hi(k) == Min(32 * k, n)
        IN /\ 32 * Len(chunks) >= n
           /\ 32 * (Len(chunks) - 1) < n
           /\ \A k \in 1..Len(chunks) :
                LET chunk == chunks[k].cv
                IN /\ chunks[k].name = ChunkName(k - 1)
                   /\ chunk.type = "CustomCVForce"
                   /\ DefinedNames(chunk.expression)
                        = [m \in 1..(hi(k) - lo(k)) |-> XName(lo(k) + m - 1)]
                   /\ Len(chunk.cvs) = hi(k) - lo(k)
                   /\ \A m \in 1..Len(chunk.cvs) :
                        /\ chunk.cvs[m].name = RmsdName(lo(k) + m - 1)
                        /\ chunk.cvs[m].cv.type = "RMSD"
                        /\ chunk.cvs[m].cv.group = GroupAtoms(lo(k) + m)
                   /\ \A frame \in Frames :
                        Value(chunk, frame) = StepSum(lo(k), hi(k), frame)
           /\ \A frame \in Frames :
                /\ StepSum(0, n, frame).d # 0
                /\ ValueSum(chunks, 1, Len(chunks), frame) = StepSum(0, n, frame)

\* C2 witness: a finished composite of three chunks, the last one partial
C2_Witness ==
    /\ pc = "done"
    /\ self.num_residue_blocks > 64
    /\ self.num_residue_blocks % 32 # 0
    /\ Len(self.cvs) = 3

\* ------------------------------------------------------------------------
\* C3
\* ------------------------------------------------------------------------

\* C3: once RMSDContent.__init__ has checked the number of groups, it has
\* failed with the configuration error (a ValueError about the number of
\* blocks) if and only if that number is outside 1..1024; a sheet that
\* enumerates no group, or more than 1024, fails, and 1..1024 pass.
C3_CountCheck ==
    CountChecked =>
        LET n == Len(rargs.residue_blocks)
        IN /\ (pc = "raised" /\ error.type = "ValueError"
                 /\ error.what = "block_count")
              <=> ~(1 <= n /\ n <= 1024)
           /\ CountPassed => (1 <= n /\ n <= 1024)

\* C3 witness: a sheet whose residues enumerate more than 1024 groups has
\* failed
C3_Witness ==
    /\ Sheet
    /\ pc = "raised"
    /\ error.what = "block_count"
    /\ Len(rargs.residue_blocks) > 1024

\* ------------------------------------------------------------------------
\* C4
\* ------------------------------------------------------------------------

\* C4: an unblocked sheet over n residues, with d_min = 6 (parallel) or 5
\* (antiparallel), enumerates (n-2-d_min)(n-1-d_min)/2 groups (for every
\* n > d_min, so for every sheet that is built), and that is the number
\* getNumResidueBlocks returns.
C4_UnblockedCount ==
    (Unblocked /\ pc # "sheet_init") =>
        LET n == Len(call.residues)
            d == IF call.parallel THEN 6 ELSE 5
            count == ((n - 2 - d) * (n - 1 - d)) \div 2
        IN /\ n > d => Len(rargs.residue_blocks) = count
           /\ CountPassed => (n > d /\ self.num_residue_blocks = count)

\* C4 witness: a parallel unblocked sheet of several groups is built
C4_Witness ==
    /\ Unblocked
    /\ call.parallel
    /\ pc = "done"
    /\ self.num_residue_blocks > 1

\* ------------------------------------------------------------------------
\* C5
\* ------------------------------------------------------------------------

\* The sum over consecutive block pairs of (n_k - 2)(n_{k+1} - 2)
RECURSIVE PairProducts(_, _)
PairProducts(sizes, k) ==
    IF k >= Len(sizes) THEN 0
    ELSE (sizes[k] - 2) * (sizes[k + 1] - 2) + PairProducts(sizes, k + 1)

\* C5: a blocked sheet whose block sizes sum to the residue count has as
\* many groups as the sum over consecutive block pairs of
\* (n_k - 2)(n_{k+1} - 2).
\* The code accepts blocks of fewer than two residues, which contribute no
\* group where the formula counts a negative or a spurious positive number.
C5_BlockedCount ==
    (Blocked /\ pc = "done") =>
        self.num_residue_blocks = PairProducts(call.blockSizes, 1)

\* ------------------------------------------------------------------------
\* C6
\* ------------------------------------------------------------------------

\* The atom names a residue must have: HA2 stands for CB in a glycine
Needed(residue) ==
    IF residue.name = "GLY" THEN {"N", "CA", "HA2", "C", "O"}
    ELSE {"N", "CA", "CB", "C", "O"}

Present(residue) == {residue.atoms[k].name : k \in 1..Len(residue.atoms)}

Lacking(residue) == Needed(residue) \ Present(residue)

\* The construction has looked the atoms up (line 42), or failed doing so
AtomsLookedUp ==
    \/ pc \in {"super_init", "add", "register", "done"}
    \/ pc = "raised" /\ error.what \notin {"block_sizes_sum", "block_count"}

\* C6: when some residue, glycine or not, lacks a required atom, the
\* construction fails with a descriptive error (a ValueError) that names a
\* missing atom and the residue that lacks it; and a glycine with HA2 and no
\* CB is accepted, the index of its HA2 standing where CB would.
\* The code breaks this for a glycine without HA2: line 86 raises a bare
\* KeyError that names no residue.
C6_MissingAtomError ==
    AtomsLookedUp =>
        LET residues == rargs.residues
            bad == {k \in 1..Len(residues) : Lacking(residues[k]) # {}}
        IN /\ bad # {} =>
                /\ pc = "raised"
                /\ error.type = "ValueError"
                /\ \E k \in bad :
                     /\ error.residue = <<residues[k].name, residues[k].id>>
                     /\ error.atom \in Lacking(residues[k]) \cup
                          (IF "HA2" \in Lacking(residues[k]) THEN {"CB"} ELSE {})
           /\ bad = {} =>
                /\ pc # "raised"
                /\ \A k \in 1..Len(residues) :
                     (residues[k].name = "GLY" /\ "CB" \notin Present(residues[k]))
                     => getAtomList(residues[k]).atom_list[3]
                          = AtomDict(residues[k])["HA2"]

\* ------------------------------------------------------------------------
\* C7
\* ------------------------------------------------------------------------

\* C7: a failed construction has registered nothing with the engine: the
\* force expression is not initialised, no chunk and no rmsd variable is
\* added, the object is not registered for serialization; and a sheet whose
\* block sizes do not sum to the residue count has failed as soon as its
\* constructor has looked at them.
C7_FailBeforeRegistration ==
    /\ pc = "raised" =>
         /\ error.type # "none"
         /\ ~self.initialised
         /\ self.expression = <<>>
         /\ self.cvs = <<>>
         /\ ~self.registered
         /\ self.cvargs = <<>>
    /\ (Blocked /\ pc # "sheet_init"
          /\ Sum(call.blockSizes) # Len(call.residues)) =>
         /\ pc = "raised"
         /\ error.what = "block_sizes_sum"
    /\ (self.initialised \/ self.cvs # <<>> \/ self.registered) =>
         error = NoError

\* C7 witness: the latest of the failures, a missing atom, has happened
C7_Witness ==
    /\ pc = "raised"
    /\ error.what = "atom_not_found"
    /\ Len(rargs.residue_blocks) >= 1

\* ------------------------------------------------------------------------
\* C8
\* ------------------------------------------------------------------------

C9_FortyOneResidues ==
    (Unblocked /\ ~call.parallel /\ Len(call.residues) = 41 /\ pc = "done") =>
        /\ self.num_residue_blocks = 300
        /\ Len(self.cvs) = 10

\* C9: an unblocked antiparallel sheet over 31 residues has 300 groups in
\* 10 chunks (over 41 residues it has 595 groups in 19 chunks).
C9_ThirtyOneResidues ==
    /\ (Unblocked /\ ~call.parallel /\ Len(call.residues) = 31 /\ CountPassed) =>
         self.num_residue_blocks = 300
    /\ (Unblocked /\ ~call.parallel /\ Len(call.residues) = 31 /\ pc = "done") =>
         /\ Len(self.cvs) = 10
         /\ \A k \in 1..10 : self.cvs[k].cv.type = "CustomCVForce"
    /\ (Unblocked /\ ~call.parallel /\ Len(call.residues) = 41 /\ pc = "done") =>
         /\ self.num_residue_blocks = 595
         /\ Len(self.cvs) = 19

\* C9 witness: the sheet over 31 residues is built
C9_Witness ==
    /\ Unblocked
    /\ ~call.parallel
    /\ Len(call.residues) = 31
    /\ pc = "done"

\* ------------------------------------------------------------------------
\* C10
\* ------------------------------------------------------------------------

\* C10: no expression node ever has more than 32 named variables; a
\* finished composite of N <= 32 groups holds its N rmsd leaves itself, one
\* of N > 32 groups holds ceil(N/32) <= 32 chunks and no leaf, and every
\* chunk holds between 1 and 32 rmsd leaves and nothing else.
C10_ArityCeiling ==
    LET n == self.num_residue_blocks
        top == self.cvs
        leaves(cvs) == \A m \in 1..Len(cvs) : cvs[m].cv.type = "RMSD"
    IN /\ Len(top) <= 32
       /\ \A k \in 1..Len(top) : Len(top[k].cv.cvs) <= 32
       /\ pc = "done" =>
            /\ 1 <= n /\ n <= 1024
            /\ n <= 32 => (Len(top) = n /\ leaves(top))
            /\ n > 32 =>
                 /\ 32 * Len(top) >= n
                 /\ 32 * (Len(top) - 1) < n
                 /\ \A k \in 1..Len(top) :
                      /\ top[k].cv.type = "CustomCVForce"
                      /\ 1 <= Len(top[k].cv.cvs)
                      /\ leaves(top[k].cv.cvs)

\* C10 witness: the largest accepted composite, of 32 full chunks, is built
C10_Witness ==
    /\ pc = "done"
    /\ self.num_residue_blocks = 1024
    /\ Len(self.cvs) = 32

\* ------------------------------------------------------------------------
\* C11
\* ------------------------------------------------------------------------

\* The name of the atom that stands at place k of a residue's five atoms:
\* N, CA, CB, C, O, with HA2 for CB in a glycine
SlotName(residue, k) ==
    IF residue.name = "GLY" /\ k = 3 THEN "HA2"
    ELSE <<"N", "CA", "CB", "C", "O">>[k]

\* The indices of the five atoms of a residue, in the order of SlotName;
\* -1 where the residue has no atom of the name
ExpectedAtoms(residue) ==
    LET at(k) == {a \in 1..Len(residue.atoms) :
                    residue.atoms[a].name = SlotName(residue, k)}
    IN <<IF at(1) = {} THEN -1 ELSE residue.atoms[CHOOSE a \in at(1) : TRUE].index,
         IF at(2) = {} THEN -1 ELSE residue.atoms[CHOOSE a \in at(2) : TRUE].index,
         IF at(3) = {} THEN -1 ELSE residue.atoms[CHOOSE a \in at(3) : TRUE].index,
         IF at(4) = {} THEN -1 ELSE residue.atoms[CHOOSE a \in at(4) : TRUE].index,
         IF at(5) = {} THEN -1 ELSE residue.atoms[CHOOSE a \in at(5) : TRUE].index>>

\* C11: every group a sheet enumerates, blocked or unblocked, is
\* (i, i+1, i+2, j, j+1, j+2) with 0 <= i, i+2 < j and j+2 <= n-1, so its
\* six residues are distinct and inside the sequence; no pair (i, j) is
\* enumerated twice; in the unblocked case j - i >= 6 for a parallel sheet
\* and j - i >= 5 for an antiparallel one; and the flattened atom list of
\* every group has 30 entries, N, CA, CB, C, O residue by residue.
C11_GroupShape ==
    LET groups == rargs.residue_blocks
        n == Len(call.residues)
    IN /\ (Sheet /\ pc # "sheet_init") =>
            /\ \A b \in 1..Len(groups) :
                 LET g == groups[b]
                     i == g[1]
                     j == g[4]
                 IN /\ g = <<i, i + 1, i + 2, j, j + 1, j + 2>>
                    /\ 0 <= i
                    /\ i + 2 < j
                    /\ j + 2 <= n - 1
                    /\ Cardinality({g[m] : m \in 1..6}) = 6
                    /\ call.blockSizes = None =>
                         j - i >= (IF call.parallel THEN 6 ELSE 5)
            /\ Cardinality({<<groups[b][1], groups[b][4]>> : b \in 1..Len(groups)})
                 = Len(groups)
       /\ (Sheet /\ pc \in {"super_init", "add"}) =>
            \A expected \in {[k \in 1..Len(rargs.residues) |->
                                ExpectedAtoms(rargs.residues[k])]} :
                /\ Len(block_atoms) = Len(groups)
                /\ \A b \in 1..Len(groups) :
                     /\ Len(block_atoms[b]) = 30
                     /\ \A m \in 1..6 : \A k \in 1..5 :
                          block_atoms[b][5 * (m - 1) + k]
                            = expected[groups[b][m] + 1][k]

\* C11 witness: the atoms of the three groups of an unblocked sheet of nine
\* residues, a glycine among them, are collected
C11_Witness ==
    /\ Unblocked
    /\ pc = "super_init"
    /\ Len(block_atoms) = 3
    /\ \E k \in 1..Len(call.residues) : call.residues[k].name = "GLY"

\* ------------------------------------------------------------------------
\* C12
\* ------------------------------------------------------------------------

\* Character k of a template is the placeholder: an x that is a name of
\* its own, no letter or digit before or after it
IsPlaceholder(s, k) ==
    /\ s[k] = "x"
    /\ k > 1 => ~(IsLetter(s[k - 1]) \/ IsDigit(s[k - 1]))
    /\ k < Len(s) => ~(IsLetter(s[k + 1]) \/ IsDigit(s[k + 1]))

\* The template with the placeholder, and only the placeholder, replaced
\* by x_i
Substituted(s, i) ==
    Concat([k \in 1..Len(s) |-> IF IsPlaceholder(s, k) THEN XName(i) ELSE <<s[k]>>])

\* The expression of the groups lo <= i < hi: the sum of the substituted
\* templates, then x_i = rmsd_i/threshold for every i, once each
SubstitutedSum(lo, hi, s, thresholdRMSD) ==
    Join(<<";">>,
         <<Join(<<"+">>, [k \in 1..(hi - lo) |-> Substituted(s, lo + k - 1)])>>
         \o [k \in 1..(hi - lo) |->
               XName(lo + k - 1) \o <<"=">> \o RmsdName(lo + k - 1)
                 \o <<"/">> \o Str(thresholdRMSD)])

\* C12: for every step-function template in the placeholder x, the summand
\* of group i is the template with the placeholder, and nothing else,
\* replaced by x_i, function names and the other tokens unchanged, and x_i
\* is defined once, as rmsd_i/threshold, in the expression that holds the
\* summand.
\* The code breaks this for a template that calls exp or max: line 52
\* replaces every letter x, and "exp(-x)" becomes "ex0p(-x0)".
C12_SummandIsTemplate ==
    pc = "done" =>
        LET n == self.num_residue_blocks
            S == rargs.stepFunction
            thr == rargs.thresholdRMSD
        IN /\ n <= 32 =>
                self.expression =
                    (IF rargs.normalize
                     THEN <<"(">> \o SubstitutedSum(0, n, S, thr)
                            \o <<")", "/">> \o Str(n)
                     ELSE SubstitutedSum(0, n, S, thr))
           /\ n > 32 =>
                \A c \in 1..Len(self.cvs) :
                    self.cvs[c].cv.expression =
                        SubstitutedSum(32 * (c - 1), Min(32 * c, n), S, thr)

\* ------------------------------------------------------------------------
\* C13
\* ------------------------------------------------------------------------

\* The module-level table of a variant
TableOf(parallel) == IF parallel THEN PARABETA_POSITIONS ELSE ANTIBETA_POSITIONS

\* A constructor of the variant has been entered in the process
Used(parallel) ==
    \/ pc # "import" /\ call.parallel = parallel
    \/ \E h \in handed : h[1] = parallel

\* The reference tables of the rmsd sub-scores of an object, those inside
\* its chunks included
LeafTables(obj) ==
    {obj.cvs[k].cv.referencePositions :
        k \in {m \in 1..Len(obj.cvs) : obj.cvs[m].cv.type = "RMSD"}}
    \cup UNION {{obj.cvs[k].cv.cvs[m].cv.referencePositions :
                   m \in 1..Len(obj.cvs[k].cv.cvs)} :
                k \in {m \in 1..Len(obj.cvs) : obj.cvs[m].cv.type # "RMSD"}}

\* Each file is loaded at most once, a loaded table is the one first loaded
\* from its variant's file, and every constructor hands its variant's table
\* to the rmsd sub-scores
SharedTables ==
    /\ \A f \in DOMAIN loads : loads[f] <= 1
    /\ PARABETA_POSITIONS \in {Unbound, loadPositions(ParallelFile, 1)}
    /\ ANTIBETA_POSITIONS \in {Unbound, loadPositions(AntiparallelFile, 1)}
    /\ \A h \in handed :
         /\ h[2] = TableOf(h[1])
         /\ h[2] = loadPositions(IF h[1] THEN ParallelFile ELSE AntiparallelFile, 1)
    /\ LeafTables(self) \subseteq {TableOf(call.parallel)}
    /\ (round = 2) => LeafTables(original) \subseteq {TableOf(call.parallel)}

FirstLackingSlot(residue) ==
    CHOOSE k \in 1..5 :
        /\ SlotName(residue, k) \notin Present(residue)
        /\ \A m \in 1..(k - 1) : SlotName(residue, m) \in Present(residue)

\* C14: the atoms are looked up for every residue handed over, in a group
\* or not: the construction succeeds only if no residue lacks a required
\* atom, and when it fails on the lookup the error is the one of the first
\* residue, in sequence order, that lacks an atom, and of the first atom it
\* lacks in the order N, CA, CB, C, O.
\* The code breaks this for a glycine that lacks HA2 and an earlier atom:
\* line 86 looks HA2 up before the loop over N, CA, CB, C, O starts.
C14_FirstMissingAtom ==
    LET residues == rargs.residues
        bad == {k \in 1..Len(residues) : Lacking(residues[k]) # {}}
    IN /\ pc \in {"super_init", "add", "register", "done"} => bad = {}
       /\ (AtomsLookedUp /\ bad # {}) =>
            LET first == CHOOSE k \in bad : \A m \in bad : k <= m
                slot == FirstLackingSlot(residues[first])
            IN /\ pc = "raised"
               /\ error.atom \in {RequiredAtoms[slot],
                                  SlotName(residues[first], slot)}
               /\ error.type = "ValueError" =>
                    error.residue = <<residues[first].name, residues[first].id>>

====
